---- MODULE Spec2Model ----
(***************************************************************************)
(* Write-back order buffer of wb-rest-orders (src/src/state.rs) and the    *)
(* HTTP handlers that call it (src/src/routes.rs).                         *)
(*                                                                         *)
(* Every HTTP request runs as its own tokio task.  A task is modelled by   *)
(* its position pc[t]; one action covers the code between two await        *)
(* points (lock().await, execute().await), which is what another task can  *)
(* interleave with.                                                        *)
(***************************************************************************)
EXTENDS Integers, Sequences, FiniteSets, TLC

\* ------------------------------------------------------------------ bounds
NumTasks == 3       \* concurrent request tasks
MaxOrders == 3      \* POST /order requests issued in one run
MaxCap == 2         \* largest --cache-size tried
MaxTxn == 2         \* distinct payment.transaction values
MaxItems == 2       \* longest order.items
NumFairTasks == 2   \* tasks of the specification with fairness

Tasks == 1..NumTasks

\* What the model keeps of an Order (order.rs): the key of each relation and
\* the length of items.  order_uid is fresh per request.
Orders == [order_uid : 1..MaxOrders, transaction : 1..MaxOrders, items : 0..MaxItems]

\* The orders of the buffer specification: a payment of its own and one item
\* each, so that save_to_db fails only where the store makes an insert fail.
PlainOrders == {o \in Orders : o.transaction = o.order_uid /\ o.items = 1}

\* The orders of the gateway specification: up to MaxTxn transactions shared
\* between them, and every length of items.
SharedOrders == {o \in Orders : o.transaction <= MaxTxn}

\* Option<Order>: <<>> is None, <<o>> is Some(o).
None == <<>>
Some(o) == <<o>>

VARIABLES
    app,            \* "start" | "running" | "panicked"
    max_capacity,   \* AppState.max_capacity
    last_orders,    \* AppState.last_orders: VecDeque<Order>
    queue_lock,     \* holder of the last_orders mutex, 0 when free
    client_lock,    \* holder of the db_client mutex, 0 when free
    db,             \* rows of the four relations, in insertion order
    pc,             \* position of each task
    last_order,     \* add_order's argument, per task
    order,          \* the order popped by the drain loop, per task
    item,           \* index of the item save_to_db is inserting, per task
    response,       \* the HTTP response sent last
    next_uid,       \* order_uid of the next POST
    next_txn,       \* smallest payment.transaction no POST has carried yet
    add_log,        \* history: orders pushed, in push order
    save_log,       \* history: orders passed to save_to_db, in call order
    pre,            \* history: last_orders as add_order found it, per task
    saved,          \* history: orders this add_order passed to save_to_db, per task
    done,           \* history: the add_order call that returned last
    error_log       \* the errors send_order logged, each with the order
                    \* whose save_to_db raised it

vars == <<app, max_capacity, last_orders, queue_lock, client_lock, db, pc,
          last_order, order, item, response, next_uid, next_txn, add_log, save_log,
          pre, saved, done, error_log>>

NoOrder == [order_uid |-> 0, transaction |-> 0, items |-> 0]
NoResponse == [status |-> 0, body |-> "", order |-> None]
NoCall == [result |-> "none", last_order |-> NoOrder, pre |-> <<>>,
           post |-> <<>>, saved |-> <<>>, failed |-> None]
EmptyDb == [orders |-> <<>>, deliveries |-> <<>>, payments |-> <<>>, items |-> <<>>]

\* ------------------------------------------------------- VecDeque and Mutex
len(q) == Len(q)

\* Mutant of pop_front: the newest order is taken (pop_back).
pop_back(q) == [value |-> q[Len(q)], rest |-> SubSeq(q, 1, Len(q) - 1)]

\* VecDeque::pop_front on a non-empty queue: the value and what is left.
pop_front(q) == [value |-> Head(q), rest |-> Tail(q)]

push_back(q, o) == Append(q, o)

\* Mutant of back: the oldest order is returned (front).
front(q) == IF q = <<>> THEN None ELSE Some(q[1])

back(q) == IF q = <<>> THEN None ELSE Some(q[Len(q)])

\* Mutant of is_free: lock() never waits.
is_free_always(lock) == TRUE

is_free(lock) == lock = 0

\* Mutant of is_full: the flush starts one order late (`>` for `>=`).
is_full_gt(q, capacity) == len(q) > capacity

\* Mutant of is_full: the flush never starts.
is_full_never(q, capacity) == FALSE

\* Mutant of is_full: the flush starts when the new order would fill the queue.
is_full_eager(q, capacity) == len(q) + 1 >= capacity

\* state.rs:73
is_full(q, capacity) == len(q) >= capacity

Init ==
    /\ app = "start"
    /\ max_capacity = 0
    /\ last_orders = <<>>
    /\ queue_lock = 0
    /\ client_lock = 0
    /\ db = EmptyDb
    /\ pc = [t \in Tasks |-> "idle"]
    /\ last_order = [t \in Tasks |-> NoOrder]
    /\ order = [t \in Tasks |-> NoOrder]
    /\ item = [t \in Tasks |-> 0]
    /\ response = NoResponse
    /\ next_uid = 1
    /\ next_txn = 1
    /\ add_log = <<>>
    /\ save_log = <<>>
    /\ pre = [t \in Tasks |-> <<>>]
    /\ saved = [t \in Tasks |-> <<>>]
    /\ done = NoCall
    /\ error_log = <<>>

\* Mutant of new: the capacity is not checked (as in main.rs:66-86).
new_unchecked(capacity) ==
    /\ app = "start"
    /\ app' = "running"
    /\ max_capacity' = capacity
    /\ last_orders' = <<>>
    /\ UNCHANGED <<queue_lock, client_lock, db, pc, last_order, order, item,
                   response, next_uid, next_txn, add_log, save_log, pre, saved, done,
                   error_log>>

\* AppState::new: capacity 0 panics before anything is built.
new(capacity) ==
    /\ app = "start"
    /\ IF capacity = 0
         THEN /\ app' = "panicked"
              /\ UNCHANGED <<max_capacity, last_orders>>
         ELSE /\ app' = "running"
              /\ max_capacity' = capacity
              /\ last_orders' = <<>>
    /\ UNCHANGED <<queue_lock, client_lock, db, pc, last_order, order, item,
                   response, next_uid, next_txn, add_log, save_log, pre, saved, done,
                   error_log>>

\* ------------------------------------------------------------- POST /order
\* routes.rs:34-35: the handler receives the order and calls add_order, which
\* waits for the last_orders mutex (state.rs:68).
send_order(t, o) ==
    /\ app = "running"
    /\ pc[t] = "idle"
    /\ next_uid <= MaxOrders
    /\ o.order_uid = next_uid
    /\ o.transaction <= next_txn
    /\ next_uid' = next_uid + 1
    /\ next_txn' = IF o.transaction = next_txn THEN next_txn + 1 ELSE next_txn
    /\ pc' = [pc EXCEPT ![t] = "add_lock"]
    /\ last_order' = [last_order EXCEPT ![t] = o]
    /\ UNCHANGED <<app, max_capacity, last_orders, queue_lock, client_lock, db,
                   order, item, response, add_log, save_log, pre, saved, done,
                   error_log>>

\* Mutant of send_order_response: the error is logged and the request is
\* answered 200 all the same.
send_order_response_ok(result) ==
    [status |-> 200, body |-> "Order received!", order |-> None]

\* routes.rs:36-40: the response send_order builds from add_order's result.
send_order_response(result) ==
    IF result = "Ok"
      THEN [status |-> 200, body |-> "Order received!", order |-> None]
      ELSE [status |-> 500, body |-> "Failed to save order to database", order |-> None]

\* add_order returns (state.rs:77 on Err, state.rs:83 on Ok): both guards are
\* dropped, the locals are gone, and send_order answers the request.
\* q is the queue the call leaves, p the queue it found, s what it passed to
\* save_to_db, f the order whose save_to_db failed, if one did.
add_order_return(t, result, q, p, s, f) ==
    /\ last_orders' = q
    /\ queue_lock' = 0
    /\ client_lock' = IF client_lock = t THEN 0 ELSE client_lock
    /\ pc' = [pc EXCEPT ![t] = "idle"]
    /\ response' = send_order_response(result)
    /\ done' = [result |-> result, last_order |-> last_order[t], pre |-> p,
                post |-> q, saved |-> s,
                failed |-> f]
    /\ last_order' = [last_order EXCEPT ![t] = NoOrder]
    /\ order' = [order EXCEPT ![t] = NoOrder]
    /\ item' = [item EXCEPT ![t] = 0]
    /\ pre' = [pre EXCEPT ![t] = <<>>]
    /\ saved' = [saved EXCEPT ![t] = <<>>]

\* state.rs:82-83
add_order_push(t, p, s) ==
    /\ add_order_return(t, "Ok", push_back(last_orders, last_order[t]), p, s, None)
    /\ add_log' = Append(add_log, last_order[t])
    /\ UNCHANGED save_log

\* Mutant of pop_front_is_none: the drain stops as soon as there is room.
pop_front_until_room(q) == len(q) < max_capacity

\* state.rs:76: `while let Some(order) = last_orders.pop_front()` ends here.
pop_front_is_none(q) == q = <<>>

\* state.rs:76-83: the head of the drain loop.  Either pop_front yields the
\* oldest order and save_to_db is entered with it, or the queue is empty and
\* the new order is pushed.
drain(t, p, s) ==
    IF pop_front_is_none(last_orders)
      THEN add_order_push(t, p, s)
      ELSE /\ last_orders' = pop_front(last_orders).rest
           /\ order' = [order EXCEPT ![t] = pop_front(last_orders).value]
           /\ save_log' = Append(save_log, pop_front(last_orders).value)
           /\ saved' = [saved EXCEPT ![t] = Append(s, pop_front(last_orders).value)]
           /\ pre' = [pre EXCEPT ![t] = p]
           /\ pc' = [pc EXCEPT ![t] = "insert_order"]
           /\ item' = [item EXCEPT ![t] = 0]
           /\ client_lock' = t
           /\ UNCHANGED <<queue_lock, last_order, response, add_log, done>>

\* Mutant of add_order_lock: the new order joins the queue before the flush,
\* so the flush passes it to save_to_db with the others.
add_order_lock_push_first(t) ==
    /\ pc[t] = "add_lock"
    /\ is_free(queue_lock)
    /\ IF is_full(last_orders, max_capacity)
         THEN /\ queue_lock' = t
              /\ last_orders' = push_back(last_orders, last_order[t])
              /\ pre' = [pre EXCEPT ![t] = last_orders]
              /\ pc' = [pc EXCEPT ![t] = "client_lock"]
              /\ UNCHANGED <<client_lock, last_order, order, item, response,
                             add_log, save_log, saved, done>>
         ELSE add_order_push(t, last_orders, <<>>)
    /\ UNCHANGED <<app, max_capacity, db, next_uid, next_txn, error_log>>

\* state.rs:68-73 and, when the queue is not full, 82-83.
add_order_lock(t) ==
    /\ pc[t] = "add_lock"
    /\ is_free(queue_lock)
    /\ IF is_full(last_orders, max_capacity)
         THEN /\ queue_lock' = t
              /\ pre' = [pre EXCEPT ![t] = last_orders]
              /\ pc' = [pc EXCEPT ![t] = "client_lock"]
              /\ UNCHANGED <<last_orders, client_lock, last_order, order, item,
                             response, add_log, save_log, saved, done>>
         ELSE add_order_push(t, last_orders, <<>>)
    /\ UNCHANGED <<app, max_capacity, db, next_uid, next_txn, error_log>>

\* state.rs:75-76: db_client.lock().await, then the first pop.
add_order_client_lock(t) ==
    /\ pc[t] = "client_lock"
    /\ is_free(client_lock)
    /\ drain(t, pre[t], saved[t])
    /\ UNCHANGED <<app, max_capacity, db, next_uid, next_txn, error_log>>

\* ------------------------------------------------------------- save_to_db
\* Mutant of save_to_db_err: the order is removed only once it is saved, so
\* the failed one stays at the front.
save_to_db_err_keep(t) ==
    /\ add_order_return(t, "Err", <<order[t]>> \o last_orders, pre[t], saved[t],
                        Some(order[t]))
    /\ UNCHANGED <<db, add_log, save_log>>

\* Mutant of save_to_db_err: the new order is pushed although the flush failed.
save_to_db_err_push(t) ==
    /\ add_order_return(t, "Err", push_back(last_orders, last_order[t]), pre[t],
                        saved[t], Some(order[t]))
    /\ add_log' = Append(add_log, last_order[t])
    /\ UNCHANGED <<db, save_log>>

\* The store without the rows of the orders in gone (payments rows are
\* shared between orders and stay).
without_rows(gone) ==
    LET uids == {o.order_uid : o \in gone}
        keep(u) == u \notin uids
        keep_item(r) == r[1] \notin uids
    IN  [db EXCEPT !.orders = SelectSeq(@, keep),
                   !.deliveries = SelectSeq(@, keep),
                   !.items = SelectSeq(@, keep_item)]

\* Mutant of save_to_db_err: save_to_db runs in a transaction, so the rows of
\* the failed order are rolled back.
save_to_db_err_rollback(t) ==
    /\ add_order_return(t, "Err", last_orders, pre[t], saved[t], Some(order[t]))
    /\ db' = without_rows({order[t]})
    /\ UNCHANGED <<add_log, save_log>>

\* Mutant of save_to_db_err: the whole drain runs in one transaction, so a
\* failure rolls back the rows of every order the drain has saved.
save_to_db_err_rollback_drain(t) ==
    /\ add_order_return(t, "Err", last_orders, pre[t], saved[t], Some(order[t]))
    /\ db' = without_rows({saved[t][i] : i \in 1..Len(saved[t])})
    /\ UNCHANGED <<add_log, save_log>>

\* Mutant of save_to_db_err: a failed flush discards what is left of the queue.
save_to_db_err_clear(t) ==
    /\ add_order_return(t, "Err", <<>>, pre[t], saved[t], Some(order[t]))
    /\ UNCHANGED <<db, add_log, save_log>>

\* Mutant of save_to_db_err: the order whose save_to_db failed is queued
\* again, at the back, for a later flush to retry.
save_to_db_err_requeue(t) ==
    /\ add_order_return(t, "Err", push_back(last_orders, order[t]), pre[t],
                        saved[t], Some(order[t]))
    /\ UNCHANGED <<db, add_log, save_log>>

\* Mutant of save_to_db_err: the error path returns without dropping the
\* guards.
save_to_db_err_hold(t) ==
    /\ pc' = [pc EXCEPT ![t] = "idle"]
    /\ response' = send_order_response("Err")
    /\ done' = [result |-> "Err", last_order |-> last_order[t], pre |-> pre[t],
                post |-> last_orders, saved |-> saved[t],
                failed |-> Some(order[t])]
    /\ last_order' = [last_order EXCEPT ![t] = NoOrder]
    /\ order' = [order EXCEPT ![t] = NoOrder]
    /\ item' = [item EXCEPT ![t] = 0]
    /\ pre' = [pre EXCEPT ![t] = <<>>]
    /\ saved' = [saved EXCEPT ![t] = <<>>]
    /\ UNCHANGED <<last_orders, queue_lock, client_lock, db, add_log, save_log>>

\* A `?` of save_to_db (state.rs:105, 116, 129, 142) taken by the `?` of
\* state.rs:77: add_order returns the error, nothing is pushed.
save_to_db_err(t) ==
    /\ add_order_return(t, "Err", last_orders, pre[t], saved[t], Some(order[t]))
    /\ UNCHANGED <<db, add_log, save_log>>

\* Mutant of save_to_db_next: the last_orders guard is not held across the
\* await of execute.
save_to_db_next_unlock(t, rows, next_pc, next_item) ==
    /\ db' = rows
    /\ pc' = [pc EXCEPT ![t] = next_pc]
    /\ item' = [item EXCEPT ![t] = next_item]
    /\ queue_lock' = 0
    /\ UNCHANGED <<last_orders, client_lock, last_order, order, response, add_log,
                   save_log, pre, saved, done>>

\* An execute().await that returned Ok and is not the last of save_to_db.
save_to_db_next(t, rows, next_pc, next_item) ==
    /\ db' = rows
    /\ pc' = [pc EXCEPT ![t] = next_pc]
    /\ item' = [item EXCEPT ![t] = next_item]
    /\ UNCHANGED <<last_orders, queue_lock, client_lock, last_order, order,
                   response, add_log, save_log, pre, saved, done>>

\* save_to_db returned Ok(()) (state.rs:145): back to the loop head.
save_to_db_ok(t, rows) ==
    /\ db' = rows
    /\ drain(t, pre[t], saved[t])

\* payments.transaction_id is unique (main.rs:126 names it as the conflict
\* target); the INSERT of state.rs:120 has no ON CONFLICT clause.
payment_conflict(rows, o) == \E i \in 1..Len(rows) : rows[i] = o.transaction

\* routes.rs:37-38: the error of the failed execute reaches send_order, which
\* logs it.  "connection" stands for every failure that is not a constraint
\* of the schema; step and item record which execute it was.
log_error(t, e) ==
    error_log' = Append(error_log, [order |-> order[t], error |-> e,
                                    step |-> pc[t], item |-> item[t]])

\* state.rs:95-105
insert_order(t) ==
    /\ pc[t] = "insert_order"
    /\ \/ /\ save_to_db_next(t, [db EXCEPT !.orders = Append(@, order[t].order_uid)],
                              "insert_delivery", 0)
          /\ UNCHANGED error_log
       \/ /\ save_to_db_err(t)
          /\ log_error(t, "connection")
    /\ UNCHANGED <<app, max_capacity, next_uid, next_txn>>

\* state.rs:107-116
insert_delivery(t) ==
    /\ pc[t] = "insert_delivery"
    /\ \/ /\ save_to_db_next(t, [db EXCEPT !.deliveries = Append(@, order[t].order_uid)],
                              "insert_payment", 0)
          /\ UNCHANGED error_log
       \/ /\ save_to_db_err(t)
          /\ log_error(t, "connection")
    /\ UNCHANGED <<app, max_capacity, next_uid, next_txn>>

\* state.rs:118-131
insert_payment(t) ==
    /\ pc[t] = "insert_payment"
    /\ \/ /\ ~payment_conflict(db.payments, order[t])
          /\ LET rows == [db EXCEPT !.payments = Append(@, order[t].transaction)]
             IN  IF order[t].items = 0
                   THEN save_to_db_ok(t, rows)
                   ELSE save_to_db_next(t, rows, "insert_item", 1)
          /\ UNCHANGED error_log
       \/ /\ payment_conflict(db.payments, order[t])
          /\ save_to_db_err(t)
          /\ log_error(t, "unique_violation")
       \/ /\ save_to_db_err(t)
          /\ log_error(t, "connection")
    /\ UNCHANGED <<app, max_capacity, next_uid, next_txn>>

\* Mutant of insert_item: the loop body runs for the first item only.
insert_item_once(t) ==
    /\ pc[t] = "insert_item"
    /\ \/ /\ save_to_db_ok(t, [db EXCEPT !.items = Append(@, <<order[t].order_uid, item[t]>>)])
          /\ UNCHANGED error_log
       \/ /\ save_to_db_err(t)
          /\ log_error(t, "connection")
    /\ UNCHANGED <<app, max_capacity, next_uid, next_txn>>

\* state.rs:131-145: one pass of `for item in &order.items`.
insert_item(t) ==
    /\ pc[t] = "insert_item"
    /\ \/ /\ LET rows == [db EXCEPT !.items = Append(@, <<order[t].order_uid, item[t]>>)]
             IN  IF item[t] = order[t].items
                   THEN save_to_db_ok(t, rows)
                   ELSE save_to_db_next(t, rows, "insert_item", item[t] + 1)
          /\ UNCHANGED error_log
       \/ /\ save_to_db_err(t)
          /\ log_error(t, "connection")
    /\ UNCHANGED <<app, max_capacity, next_uid, next_txn>>

\* -------------------------------------------------------------- GET /order
\* routes.rs:52-53: the handler calls get_last_order, which waits for the
\* last_orders mutex (state.rs:153).
get_order(t) ==
    /\ app = "running"
    /\ pc[t] = "idle"
    /\ pc' = [pc EXCEPT ![t] = "get_lock"]
    /\ UNCHANGED <<app, max_capacity, last_orders, queue_lock, client_lock, db,
                   last_order, order, item, response, next_uid, next_txn, add_log,
                   save_log, pre, saved, done, error_log>>

\* Mutant of get_order_response: an empty queue is answered 404.
get_order_response_404(last) ==
    IF last = None
      THEN [status |-> 404, body |-> "No orders yet", order |-> None]
      ELSE [status |-> 200, body |-> "order", order |-> last]

\* routes.rs:53-57
get_order_response(last) ==
    IF last = None
      THEN [status |-> 200, body |-> "No orders yet", order |-> None]
      ELSE [status |-> 200, body |-> "order", order |-> last]

\* Mutant of get_last_order: the queue is read without its lock.
get_last_order_unlocked(t) ==
    /\ pc[t] = "get_lock"
    /\ response' = get_order_response(back(last_orders))
    /\ pc' = [pc EXCEPT ![t] = "idle"]
    /\ UNCHANGED <<app, max_capacity, last_orders, queue_lock, client_lock, db,
                   last_order, order, item, next_uid, next_txn, add_log, save_log,
                   pre, saved, done, error_log>>

\* Mutant of get_last_order: the back is taken out of the queue (pop_back).
get_last_order_take(t) ==
    /\ pc[t] = "get_lock"
    /\ is_free(queue_lock)
    /\ response' = get_order_response(back(last_orders))
    /\ last_orders' = IF last_orders = <<>> THEN <<>>
                      ELSE SubSeq(last_orders, 1, Len(last_orders) - 1)
    /\ pc' = [pc EXCEPT ![t] = "idle"]
    /\ UNCHANGED <<app, max_capacity, queue_lock, client_lock, db, last_order,
                   order, item, next_uid, next_txn, add_log, save_log, pre, saved,
                   done, error_log>>

\* state.rs:153-155: lock, clone the back, drop the guard; get_order answers.
get_last_order(t) ==
    /\ pc[t] = "get_lock"
    /\ is_free(queue_lock)
    /\ response' = get_order_response(back(last_orders))
    /\ pc' = [pc EXCEPT ![t] = "idle"]
    /\ UNCHANGED <<app, max_capacity, last_orders, queue_lock, client_lock, db,
                   last_order, order, item, next_uid, next_txn, add_log, save_log, pre,
                   saved, done, error_log>>

Next ==
    \/ \E capacity \in 0..MaxCap : new(capacity)
    \/ \E t \in Tasks : \E o \in PlainOrders : send_order(t, o)
    \/ \E t \in Tasks : add_order_lock(t)
    \/ \E t \in Tasks : add_order_client_lock(t)
    \/ \E t \in Tasks : insert_order(t)
    \/ \E t \in Tasks : insert_delivery(t)
    \/ \E t \in Tasks : insert_payment(t)
    \/ \E t \in Tasks : insert_item(t)
    \/ \E t \in Tasks : get_order(t)
    \/ \E t \in Tasks : get_last_order(t)

Spec == Init /\ [][Next]_vars

\* The gateway alone: one task, so every add_order runs to its end before the
\* next request, and orders that share transactions and differ in items.
SaveNext ==
    \/ \E capacity \in 0..MaxCap : new(capacity)
    \/ \E o \in SharedOrders : send_order(1, o)
    \/ add_order_lock(1)
    \/ add_order_client_lock(1)
    \/ insert_order(1)
    \/ insert_delivery(1)
    \/ insert_payment(1)
    \/ insert_item(1)
    \/ get_order(1)
    \/ get_last_order(1)

SaveSpec == Init /\ [][SaveNext]_vars

\* The requests of NumFairTasks tasks, for the claims about progress.
FairTasks == 1..NumFairTasks

FairNext ==
    \/ \E capacity \in 0..MaxCap : new(capacity)
    \/ \E t \in FairTasks : \E o \in PlainOrders : send_order(t, o)
    \/ \E t \in FairTasks : add_order_lock(t)
    \/ \E t \in FairTasks : add_order_client_lock(t)
    \/ \E t \in FairTasks : insert_order(t)
    \/ \E t \in FairTasks : insert_delivery(t)
    \/ \E t \in FairTasks : insert_payment(t)
    \/ \E t \in FairTasks : insert_item(t)
    \/ \E t \in FairTasks : get_order(t)
    \/ \E t \in FairTasks : get_last_order(t)

\* Scheduling.  tokio::sync::Mutex (state.rs:2) hands the lock to its waiters
\* in the order they asked, so a task waiting in lock().await gets the lock
\* if every holder lets go: strong fairness of the two acquisitions of
\* last_orders.  The runtime polls every task that can run, and every
\* execute() is taken to return, with Ok or with Err: weak fairness of the
\* other steps of a request.
lock_last_orders(t) == add_order_lock(t) \/ get_last_order(t)

\* What add_order does once it holds last_orders: db_client.lock().await,
\* which it never finds taken, and the executes of save_to_db.
flush_step(t) ==
    \/ add_order_client_lock(t)
    \/ insert_order(t)
    \/ insert_delivery(t)
    \/ insert_payment(t)
    \/ insert_item(t)

Fairness ==
    \A t \in FairTasks :
        /\ SF_vars(lock_last_orders(t))
        /\ WF_vars(flush_step(t))

FairSpec == Init /\ [][FairNext]_vars /\ Fairness

\* ===================================================================== claims
Range(q) == {q[i] : i \in 1..Len(q)}

IsPrefix(s, q) == Len(s) <= Len(q) /\ SubSeq(q, 1, Len(s)) = s

RECURSIVE IsSubseq(_, _)
IsSubseq(s, q) ==
    IF s = <<>> THEN TRUE
    ELSE IF q = <<>> THEN FALSE
    ELSE IF Head(s) = Head(q) THEN IsSubseq(Tail(s), Tail(q))
    ELSE IsSubseq(s, Tail(q))

\* What is left of q behind its first n elements.
Behind(q, n) == SubSeq(q, n + 1, Len(q))

\* The most recent element of q as an Option.
LastOf(q) == IF q = <<>> THEN None ELSE Some(q[Len(q)])

SavePcs == {"insert_order", "insert_delivery", "insert_payment", "insert_item"}

\* Task t is inside save_to_db.
InSave(t) == pc[t] \in SavePcs

\* Task t is inside add_order and holds the last_orders guard.
InFlush(t) == pc[t] \in SavePcs \cup {"client_lock"}

\* The step in which task t's get_last_order runs.
GetStep(t) == pc[t] = "get_lock" /\ pc'[t] = "idle"

\* C1: the stored queue never holds more than max_capacity orders, in
\* particular not as an add_order call finds it nor as it leaves it, whether
\* the call succeeded or failed; and max_capacity never changes once the
\* state is constructed.
CapacityInvariant ==
    /\ [](app = "running" =>
            /\ len(last_orders) <= max_capacity
            /\ len(done.pre) <= max_capacity
            /\ len(done.post) <= max_capacity)
    /\ [][app = "running" => max_capacity' = max_capacity]_vars

\* An add_order that flushed has returned and left the queue at capacity.
CapacityWitness ==
    /\ done.result = "Ok"
    /\ len(done.pre) = max_capacity
    /\ len(last_orders) = max_capacity

\* C2: a drain passes the buffered orders to save_to_db oldest first, one at
\* a time, and the orders passed to save_to_db over the whole run are a
\* subsequence of the orders in the order they were pushed.
FifoDrain ==
    /\ IsSubseq(save_log, add_log)
    /\ \A t \in Tasks : IsPrefix(saved[t], pre[t])
    /\ IsPrefix(done.saved, done.pre)
    /\ Cardinality({t \in Tasks : InSave(t)}) <= 1

\* A drain of two orders has run to its end.
FifoDrainWitness == done.result = "Ok" /\ len(done.saved) = 2

\* C3: when save_to_db fails on the k-th order of the queue add_order found,
\* add_order returns the error, save_to_db was called on the first k orders
\* only, the queue is left holding the orders behind the k-th in their
\* order, and the new order is not in it; with capacity 1 the queue is left
\* empty.
FlushFailure ==
    done.failed # None =>
        /\ done.result = "Err"
        /\ done.saved # <<>>
        /\ IsPrefix(done.saved, done.pre)
        /\ done.failed = LastOf(done.saved)
        /\ done.post = Behind(done.pre, len(done.saved))
        /\ done.last_order \notin Range(done.post)
        /\ (max_capacity = 1 => done.post = <<>>)

\* save_to_db failed on the first of two buffered orders.
FlushFailureWitness ==
    /\ done.result = "Err"
    /\ len(done.pre) = 2
    /\ len(done.saved) = 1
    /\ len(done.post) = 1

\* C4: an add_order that found the queue at capacity and whose saves all
\* succeeded has passed the whole queue to save_to_db and leaves exactly the
\* new order in the queue.
SuccessfulFlush ==
    (done.result = "Ok" /\ len(done.pre) >= max_capacity) =>
        /\ done.saved = done.pre
        /\ done.post = <<done.last_order>>

\* Capacity 2: the third order flushed the first two.
SuccessfulFlushWitness ==
    /\ done.result = "Ok"
    /\ max_capacity = 2
    /\ len(done.saved) = 2
    /\ done.post = <<done.last_order>>

\* C5 as stated: at most max_capacity - 1 orders are resident.
BlastRadiusBelowCapacity ==
    app = "running" => len(last_orders) <= max_capacity - 1

\* Orders pushed and not yet passed to save_to_db.
Unpersisted == Range(add_log) \ Range(save_log)

\* C5 amended: the orders admitted and not yet passed to save_to_db are
\* the resident ones, and there are at most max_capacity of them: the drain
\* runs before order max_capacity + 1 is admitted.
BlastRadius ==
    app = "running" =>
        /\ Unpersisted = Range(last_orders)
        /\ Cardinality(Unpersisted) <= max_capacity

\* After a drain, the queue has filled up to max_capacity again.
BlastRadiusWitness ==
    /\ save_log # <<>>
    /\ Cardinality(Unpersisted) = max_capacity

\* C6: at most one add_order is between its capacity check and its return;
\* it holds the queue lock, the queue is what it found less what it popped
\* (no other call touched it), and the saves of its drain are the end of the
\* save history (no save of another call among them).
FlushMutex ==
    /\ Cardinality({t \in Tasks : InFlush(t)}) <= 1
    /\ \A t \in Tasks : InFlush(t) =>
            /\ queue_lock = t
            /\ last_orders = Behind(pre[t], len(saved[t]))
            /\ len(saved[t]) <= len(save_log)
            /\ Behind(save_log, len(save_log) - len(saved[t])) = saved[t]

\* One add_order is saving while another waits for the queue lock.
FlushMutexWitness ==
    \E t, u \in Tasks : pc[t] = "insert_payment" /\ pc[u] = "add_lock"

\* C7: get_last_order never runs while an add_order is between its capacity
\* check and its return; the queue it reads is one a completed add_order
\* left (which is the queue the next add_order finds).
NoPartialView ==
    [][\A t \in Tasks : GetStep(t) =>
          /\ ~ \E u \in Tasks : InFlush(u)
          /\ last_orders = done.post]_vars

\* A GET waits while a drain has emptied a queue that was not empty.
NoPartialViewWitness ==
    \E t, u \in Tasks :
        /\ pc[t] = "get_lock"
        /\ InSave(u)
        /\ last_orders = <<>>
        /\ pre[u] # <<>>

\* C8: the order of an add_order that is flushing is not in the queue and no
\* GET has returned it; the order of an add_order whose flush failed is not
\* in the queue either, and the most recent order then is the last one that
\* was resident before, or none when the failed order was the last.
AdmissionGating ==
    /\ \A t \in Tasks : InFlush(t) =>
            /\ last_order[t] \notin Range(last_orders)
            /\ response.order # Some(last_order[t])
    /\ done.result = "Err" =>
            /\ done.last_order \notin Range(last_orders)
            /\ response.order # Some(done.last_order)
            /\ LastOf(done.post) =
                   IF done.failed = LastOf(done.pre) THEN None ELSE LastOf(done.pre)

\* After a failed flush a GET returned the order that was the most recent
\* before it.
AdmissionGatingWitness ==
    /\ done.result = "Err"
    /\ response.order # None
    /\ response.order = LastOf(done.pre)

\* C9: get_last_order returns the back of the queue the add_order that
\* returned last has left: the order of that call when it succeeded.
ReadFreshness ==
    [][\A t \in Tasks : GetStep(t) =>
          /\ response'.order = LastOf(done.post)
          /\ (done.result = "Ok" => response'.order = Some(done.last_order))]_vars

\* A GET returned the order of the add_order that returned last.
ReadFreshnessWitness ==
    /\ done.result = "Ok"
    /\ response.order = Some(done.last_order)

\* C10: get_last_order returns the back of the queue or None, calls
\* save_to_db on nothing, and leaves queue, store and client lock as they
\* were.
PeekLastPure ==
    [][\A t \in Tasks : GetStep(t) =>
          /\ response'.order = LastOf(last_orders)
          /\ last_orders' = last_orders
          /\ db' = db
          /\ save_log' = save_log
          /\ add_log' = add_log
          /\ client_lock' = client_lock]_vars

\* A GET returned an order and the order is still the back of the queue.
PeekLastPureWitness ==
    /\ response.order # None
    /\ response.order = LastOf(last_orders)
    /\ len(last_orders) = 2

\* ------------------------------------------------------------ C11..C20
\* The rows of the items relation that belong to order o.
ItemRows(o) == {r \in Range(db.items) : r[1] = o.order_uid}

\* Every row save_to_db writes for o is in the store.
Persisted(o) ==
    /\ o.order_uid \in Range(db.orders)
    /\ o.order_uid \in Range(db.deliveries)
    /\ o.transaction \in Range(db.payments)
    /\ ItemRows(o) = {<<o.order_uid, j>> : j \in 1..o.items}

\* save_to_db is running on o.
InFlight(o) == \E t \in Tasks : InSave(t) /\ order[t] = o

\* The orders on which save_to_db failed, and those it failed on with e.
Failed == {error_log[i].order : i \in 1..Len(error_log)}
FailedWith(e) == {error_log[i].order : i \in {j \in 1..Len(error_log) : error_log[j].error = e}}

\* q holds no element twice.
NoDuplicates(q) == \A i, j \in 1..Len(q) : q[i] = q[j] => i = j

\* C11: save_to_db raises no error for an order whose transaction_id already
\* has a payments row: unless the connection fails, every order passed to
\* save_to_db gets its orders, deliveries and items rows, and payments keeps
\* one row per transaction_id.
IdempotentPaymentInsert ==
    /\ FailedWith("unique_violation") = {}
    /\ NoDuplicates(db.payments)
    /\ \A o \in Range(save_log) :
          InFlight(o) \/ o \in FailedWith("connection") \/ Persisted(o)

\* A save_to_db call fails in this step.
SaveFails == Len(error_log') > Len(error_log)

\* C12: save_to_db inserts into orders, deliveries, payments and items in
\* that order; when a step fails, save_to_db ends at once with that error,
\* the rows of the steps before it stay, the failed step and the steps after
\* it write nothing, and nothing is rolled back.
SaveStepOrder ==
    /\ [](\A t \in Tasks : InSave(t) =>
            LET o == order[t]
                u == o.order_uid
            IN  /\ pc[t] = "insert_order" =>
                     /\ u \notin Range(db.orders)
                     /\ u \notin Range(db.deliveries)
                     /\ ItemRows(o) = {}
                /\ pc[t] = "insert_delivery" =>
                     /\ u \in Range(db.orders)
                     /\ u \notin Range(db.deliveries)
                     /\ ItemRows(o) = {}
                /\ pc[t] = "insert_payment" =>
                     /\ u \in Range(db.orders)
                     /\ u \in Range(db.deliveries)
                     /\ ItemRows(o) = {}
                /\ pc[t] = "insert_item" =>
                     /\ u \in Range(db.orders)
                     /\ u \in Range(db.deliveries)
                     /\ o.transaction \in Range(db.payments)
                     /\ ItemRows(o) = {<<u, j>> : j \in 1..(item[t] - 1)})
    /\ [][SaveFails =>
            /\ db' = db
            /\ \E t \in Tasks :
                  /\ InSave(t)
                  /\ pc'[t] = "idle"
                  /\ done'.result = "Err"
                  /\ done'.failed = Some(order[t])
                  /\ error_log'[Len(error_log')].order = order[t]]_vars

\* save_to_db failed after the orders and deliveries rows of an order with
\* items, and before any of its items rows.
SaveStepOrderWitness ==
    \E o \in Failed :
        /\ o.order_uid \in Range(db.orders)
        /\ o.order_uid \in Range(db.deliveries)
        /\ o.items > 0
        /\ ItemRows(o) = {}

\* C13: a state that serves requests has max_capacity >= 1; construction
\* with capacity 0 panics and leaves nothing that could serve one: no queue
\* content, no request accepted, no response, no row.
ConstructionError ==
    /\ app = "running" => max_capacity >= 1
    /\ app = "panicked" =>
          /\ max_capacity = 0
          /\ last_orders = <<>>
          /\ \A t \in Tasks : pc[t] = "idle"
          /\ next_uid = 1
          /\ response = NoResponse
          /\ db = EmptyDb
    /\ (\E t \in Tasks : pc[t] # "idle") => max_capacity >= 1

\* AppState::new was called with capacity 0.
ConstructionErrorWitness == app = "panicked"

\* The step in which task t's add_order returns and send_order answers.
AddReturn(t) == pc[t] \in SavePcs \cup {"add_lock", "client_lock"} /\ pc'[t] = "idle"

\* C14: POST /order is answered 200 "Order received!" exactly when add_order
\* admitted the order, and 500 "Failed to save order to database" exactly
\* when a save_to_db of its drain failed; a failed save_to_db ends the
\* add_order that called it in the same step, which answers that request
\* and no other.
PostResultMapping ==
    [][/\ \A t \in Tasks : AddReturn(t) =>
             /\ response'.status \in {200, 500}
             /\ response'.status = 200 <=> add_log' = Append(add_log, last_order[t])
             /\ response'.status = 200 => response'.body = "Order received!"
             /\ response'.status = 500 <=> SaveFails
             /\ response'.status = 500 =>
                    response'.body = "Failed to save order to database"
             /\ \A u \in Tasks \ {t} : pc'[u] = pc[u]
       /\ SaveFails =>
             /\ Len(error_log') = Len(error_log) + 1
             /\ \E t \in Tasks : AddReturn(t) /\ InSave(t)
       /\ (response' # response /\ response'.status = 500) => SaveFails]_vars

\* A POST was answered 500 after a failed save_to_db.
PostResultMappingWitness ==
    /\ response.status = 500
    /\ done.result = "Err"
    /\ error_log # <<>>

\* C15: GET /order is always answered 200: with the "No orders yet" message
\* when the queue is empty, with the order at its back otherwise; it changes
\* neither the queue nor the store.
GetAlwaysOk ==
    [][\A t \in Tasks : GetStep(t) =>
          /\ response'.status = 200
          /\ last_orders = <<>> =>
                response' = [status |-> 200, body |-> "No orders yet", order |-> None]
          /\ last_orders # <<>> =>
                /\ response'.body = "order"
                /\ response'.order = Some(last_orders[Len(last_orders)])
          /\ UNCHANGED <<last_orders, db, error_log>>]_vars

\* GET /order on the freshly built state returned the message.
GetAlwaysOkWitness ==
    /\ response = [status |-> 200, body |-> "No orders yet", order |-> None]
    /\ next_uid = 1

\* C16: an add_order that takes the queue lock while the queue is shorter
\* than max_capacity returns in that step with Ok: it calls save_to_db on
\* nothing, does not take the client lock, writes no row, and leaves the
\* queue as it was with the new order appended.
NoFlushBelowCapacity ==
    [][\A t \in Tasks :
          (/\ pc[t] = "add_lock"
           /\ pc'[t] # "add_lock"
           /\ len(last_orders) < max_capacity) =>
              /\ pc'[t] = "idle"
              /\ last_orders' = Append(last_orders, last_order[t])
              /\ save_log' = save_log
              /\ db' = db
              /\ client_lock = 0
              /\ client_lock' = 0
              /\ done'.result = "Ok"
              /\ done'.saved = <<>>
              /\ response'.status = 200]_vars

\* A second order was appended behind the first without a flush.
NoFlushBelowCapacityWitness ==
    /\ done.result = "Ok"
    /\ done.saved = <<>>
    /\ len(done.pre) = 1
    /\ done.post = Append(done.pre, done.last_order)
    /\ last_orders = done.post

\* The orders that were pushed and are no longer in the queue.
Left == Range(add_log) \ Range(last_orders)

\* C17: the queue changes only by a push at the back or by the drain of an
\* add_order that found it at capacity popping its front and passing it to
\* save_to_db; so the orders that left are those passed to save_to_db, none
\* of them is resident, and each of them is fully persisted or is the one
\* order a failed drain stopped on (or save_to_db is still running on it).
RemovalDiscipline ==
    /\ [](/\ Left = Range(save_log)
          /\ Range(last_orders) \cap Range(save_log) = {}
          /\ \A o \in Left :
                /\ InFlight(o) \/ Persisted(o) \/ o \in Failed
                /\ ~(Persisted(o) /\ o \in Failed)
                /\ ~(InFlight(o) /\ o \in Failed)
          /\ Cardinality(Failed) = Len(error_log))
    /\ [][last_orders' # last_orders =>
            \/ \E t \in Tasks :
                  /\ AddReturn(t)
                  /\ last_orders' = Append(last_orders, last_order[t])
            \/ \E t \in Tasks :
                  /\ last_orders # <<>>
                  /\ last_orders' = Tail(last_orders)
                  /\ queue_lock' = t
                  /\ pc'[t] = "insert_order"
                  /\ order'[t] = Head(last_orders)
                  /\ save_log' = Append(save_log, Head(last_orders))
                  /\ len(pre'[t]) >= max_capacity]_vars

\* Of the orders that left, one is persisted and one was lost to a failed
\* save_to_db.
RemovalDisciplineWitness ==
    /\ \E o \in Left : Persisted(o)
    /\ \E o \in Left : o \in Failed

\* C18: save_to_db is called at most once for each order; an order on which
\* it failed is not passed to it again, is not in the queue again, is not the
\* order of any call in progress, and no later add_order finds it in the
\* queue nor does get_last_order return it.
AtMostOnce ==
    /\ [](/\ NoDuplicates(save_log)
          /\ \A o \in Failed :
                /\ o \in Range(save_log)
                /\ o \notin Range(last_orders)
                /\ ~InFlight(o))
    /\ [][/\ \A o \in Failed : save_log' = save_log \/ save_log'[Len(save_log')] # o
          /\ \A t \in Tasks :
                /\ pc[t] = "add_lock" /\ pc'[t] # "add_lock" =>
                      Range(last_orders) \cap Failed = {}
                /\ GetStep(t) => \A o \in Failed : response'.order # Some(o)]_vars

\* After a save_to_db failure an add_order succeeded and get_last_order
\* returned the order it pushed.
AtMostOnceWitness ==
    /\ error_log # <<>>
    /\ done.result = "Ok"
    /\ response.body = "order"
    /\ response.order = Some(done.last_order)

\* The rows save_to_db has written for e.order when its execute e.step fails.
RowsBefore(e) ==
    LET o == e.order
        u == o.order_uid
    IN  /\ e.step \in {"insert_delivery", "insert_payment", "insert_item"} =>
              u \in Range(db.orders)
        /\ e.step \in {"insert_payment", "insert_item"} =>
              u \in Range(db.deliveries)
        /\ e.step = "insert_item" =>
              /\ o.transaction \in Range(db.payments)
              /\ {<<u, j>> : j \in 1..(e.item - 1)} \subseteq ItemRows(o)

\* C19: when the drain of an add_order fails on the k-th order it popped,
\* the k-1 orders before it have all their rows in the store after add_order
\* has returned the error, and so has the failed order the rows of the steps
\* before the one that failed; no later step removes a row.
PartialDrainKept ==
    /\ [](done.result = "Err" =>
            LET s == done.saved
                k == Len(s)
                e == error_log[Len(error_log)]
            IN  /\ k >= 1
                /\ IsPrefix(s, done.pre)
                /\ done.failed = Some(s[k])
                /\ e.order = s[k]
                /\ \A i \in 1..(k - 1) : Persisted(s[i])
                /\ RowsBefore(e))
    /\ [][/\ IsPrefix(db.orders, db'.orders)
          /\ IsPrefix(db.deliveries, db'.deliveries)
          /\ IsPrefix(db.payments, db'.payments)
          /\ IsPrefix(db.items, db'.items)]_vars

\* A drain failed on its second order, after the orders row of that order
\* was written; the first order is fully persisted.
PartialDrainKeptWitness ==
    /\ done.result = "Err"
    /\ Len(done.saved) = 2
    /\ Persisted(done.saved[1])
    /\ error_log[Len(error_log)].step # "insert_order"
    /\ done.saved[2].order_uid \in Range(db.orders)

\* No row of the store belongs to o.
NoRows(o) ==
    /\ o.order_uid \notin Range(db.orders)
    /\ o.order_uid \notin Range(db.deliveries)
    /\ ItemRows(o) = {}

\* C20: add_order never passes its own order to save_to_db; an order is
\* passed to save_to_db only after the add_order that pushed it has returned,
\* by the flush of a later add_order that found the queue at capacity.  So an
\* order in the queue, at whatever point the process stops, has not been
\* passed to save_to_db and has no row in the store.
DeferredPersistence ==
    /\ [](/\ done.result = "Ok" => done.last_order \notin Range(done.saved)
          /\ \A t \in Tasks :
                pc[t] \notin {"idle", "get_lock"} =>
                    /\ last_order[t] \notin Range(save_log)
                    /\ last_order[t] \notin Range(last_orders)
                    /\ NoRows(last_order[t])
          /\ \A o \in Range(last_orders) :
                /\ o \in Range(add_log)
                /\ o \notin Range(save_log)
                /\ NoRows(o))
    /\ [][save_log' # save_log =>
            \E t \in Tasks :
                /\ save_log' = Append(save_log, order'[t])
                /\ order'[t] \in Range(add_log)
                /\ order'[t] # last_order[t]
                /\ pc'[t] = "insert_order"
                /\ len(pre'[t]) >= max_capacity]_vars

\* An add_order flushed the queue and pushed its order: the orders it
\* flushed are persisted, its own is in the queue with no row in the store.
DeferredPersistenceWitness ==
    /\ done.result = "Ok"
    /\ done.saved # <<>>
    /\ \A o \in Range(done.saved) : Persisted(o)
    /\ last_orders = <<done.last_order>>
    /\ done.last_order \notin Range(save_log)
    /\ NoRows(done.last_order)

\* C21: from the first save_to_db of a drain until add_order returns, the
\* draining task holds the queue lock and no other task completes an
\* add_order or a get_last_order: a task waiting for the lock stays where it
\* is, an idle one can at most start a request and wait, and the only
\* response produced is the draining task's own.  This holds step by step
\* for as long as save_to_db has not returned, hence forever if it never
\* does: lock().await is the only way past, and it has no timeout.
FlushBlocks ==
    [][\A t \in Tasks : InSave(t) =>
          /\ queue_lock = t
          /\ \A u \in Tasks \ {t} :
                /\ pc[u] \in {"idle", "add_lock", "get_lock"}
                /\ pc[u] \in {"add_lock", "get_lock"} => pc'[u] = pc[u]
                /\ pc[u] = "idle" => pc'[u] \in {"idle", "add_lock", "get_lock"}
                /\ last_order'[u] # last_order[u] => pc'[u] = "add_lock"
          /\ response' # response => pc'[t] = "idle"
          /\ done' # done => pc'[t] = "idle"
          /\ add_log' # add_log => pc'[t] = "idle"]_vars

\* While one task is in the last step of a save_to_db, an add_order and a
\* get_last_order of two other tasks wait for the queue lock.
FlushBlocksWitness ==
    \E t, u, v \in Tasks :
        /\ pc[t] = "insert_item"
        /\ queue_lock = t
        /\ pc[u] = "add_lock"
        /\ pc[v] = "get_lock"

\* The items rows of o, in the order they were inserted.
ItemSeq(o) == SelectSeq(db.items, LAMBDA r : r[1] = o.order_uid)

\* The error_log entry of the failed order o.
ErrorOf(o) == CHOOSE e \in Range(error_log) : e.order = o

\* C22: the items rows of an order are rows 1, 2, ... of its items, inserted
\* in that sequence and each once, and there are none before its orders,
\* deliveries and payments rows; when the insert of item j fails the rows of
\* items 1..j-1 are there and no other, when an earlier step fails there is
\* none, and when save_to_db returned Ok there is one per item: none for an
\* order without items, whose save_to_db returns Ok from the payments step.
ItemRowsInSequence ==
    /\ [](/\ \A r \in Range(db.items) : \E o \in Range(save_log) : r[1] = o.order_uid
          /\ \A o \in Range(save_log) :
                LET rows == ItemSeq(o)
                    u == o.order_uid
                IN  /\ rows = [j \in 1..Len(rows) |-> <<u, j>>]
                    /\ Len(rows) <= o.items
                    /\ rows # <<>> =>
                          /\ u \in Range(db.orders)
                          /\ u \in Range(db.deliveries)
                          /\ o.transaction \in Range(db.payments)
                    /\ \A t \in Tasks : InSave(t) /\ order[t] = o =>
                          Len(rows) = IF pc[t] = "insert_item" THEN item[t] - 1 ELSE 0
                    /\ o \in Failed =>
                          Len(rows) = IF ErrorOf(o).step = "insert_item"
                                        THEN ErrorOf(o).item - 1 ELSE 0
                    /\ ~InFlight(o) /\ o \notin Failed => Len(rows) = o.items)
    /\ [][\A t \in Tasks :
            /\ pc[t] = "insert_payment" /\ order[t].items = 0 /\ ~SaveFails =>
                  /\ pc'[t] # "insert_item"
                  /\ db'.items = db.items
                  /\ order[t].transaction \in Range(db'.payments)
            /\ db'.items # db.items =>
                  \E u \in Tasks :
                      /\ pc[u] = "insert_item"
                      /\ ~SaveFails
                      /\ db'.items = Append(db.items, <<order[u].order_uid, item[u]>>)]_vars

\* One order without items was saved, and the save_to_db of an order with
\* two items failed on the second, leaving the row of the first.
ItemRowsInSequenceWitness ==
    /\ \E o \in Range(save_log) :
          /\ o.items = 0
          /\ o \notin Failed
          /\ ~InFlight(o)
          /\ Persisted(o)
    /\ \E o \in Failed :
          /\ o.items = 2
          /\ ErrorOf(o).step = "insert_item"
          /\ ErrorOf(o).item = 2
          /\ ItemSeq(o) = << <<o.order_uid, 1>> >>

\* Task t has a request in progress.
Busy(t) == pc[t] # "idle"

\* C23: db_client is locked only by the task that holds last_orders, and
\* get_last_order holds last_orders alone and only within its step; when
\* add_order returns, with Ok or with Err, both locks are free.  So, every
\* save_to_db returning and the scheduling being fair, every request in
\* progress completes, whatever failed before it.
LockRelease ==
    /\ [](/\ client_lock # 0 => client_lock = queue_lock
          /\ \A t \in Tasks :
                /\ pc[t] \in {"idle", "add_lock", "get_lock"} =>
                      queue_lock # t /\ client_lock # t
                /\ pc[t] = "client_lock" => queue_lock = t /\ client_lock = 0
                /\ InSave(t) => queue_lock = t /\ client_lock = t)
    /\ [][\A t \in Tasks :
            /\ AddReturn(t) => queue_lock' = 0 /\ client_lock' = 0
            /\ GetStep(t) => queue_lock' = 0 /\ client_lock' = 0]_vars
    /\ \A t \in Tasks : Busy(t) ~> ~Busy(t)

\* After a failed flush a later add_order found the queue empty and
\* returned Ok; no request is in progress and both locks are free.
LockReleaseWitness ==
    /\ error_log # <<>>
    /\ done.result = "Ok"
    /\ done.pre = <<>>
    /\ response.body = "Order received!"
    /\ \A t \in Tasks : ~Busy(t)
    /\ queue_lock = 0
    /\ client_lock = 0

====
